---- MODULE Spec2Model ----
(***************************************************************************)
(* Model of the command-line classifier of cpp-opt-parser and of the      *)
(* query classes built on its result:                                      *)
(*   opt::ParserConfig     (src/parserlib/ParserConfig.hpp)                *)
(*   opt::parseArgs        (src/parserlib/parseArgs.hpp)                   *)
(*   opt::VariantArgument  (src/parserlib/VariantArgument.hpp)             *)
(*   opt::Params           (src/parserlib/Params.hpp)                      *)
(*   opt::ParamsAPI        (src/parserlib/ParamsAPI.hpp)                   *)
(*                                                                         *)
(* A std::string is a sequence of one-character strings, so "-ab" is       *)
(* <<"-", "a", "b">> and the empty string is << >>.  A std::optional is a  *)
(* sequence of length 0 (std::nullopt) or 1 (the held value).              *)
(***************************************************************************)
EXTENDS Integers, Sequences, FiniteSets

VARIABLES
    args,   \* const std::vector<std::string>& args      (parseArgs.hpp:22)
    cfg,    \* const ParserConfig& cfg                   (parseArgs.hpp:22)
    it,     \* the token cursor `it`, 1-based; Len(args)+1 is args.end()
    cont,   \* ContainerType cont, the vector being built (parseArgs.hpp:24)
    prov,   \* history: for each element of cont, where it came from
    pc,     \* "loop" | "returned" | "thrown"
    _args,  \* ContainerType _args of a Params / ParamsAPI (Params.hpp:30)
    call,   \* the facade operation last called, with its arguments
    ret     \* what that operation returned (or that it threw)

\* the variables of a Params / ParamsAPI object and of a call on it
facade == <<_args, call, ret>>

vars == <<args, cfg, it, cont, prov, pc, _args, call, ret>>

----------------------------------------------------------------------------
(* Bounds and input alphabets *)

\* the longest token list that is classified
MaxArgs == 3

\* const size_t max = 2u, the default of countPrefix
CountPrefixMax == 2

\* _DEFAULT_OPT_DELIMITERS{ "-" }
DEFAULT_OPT_DELIMITERS == <<"-">>

\* the characters isdigit() accepts
Digits == {"0", "1", "2", "3", "4", "5", "6", "7", "8", "9"}

\* The tokens the token lists are drawn from: one of each shape the
\* classifier tells apart.
Tokens ==
    { << >>,                        \* ""      the empty string
      <<"-">>,                      \* "-"     a lone prefix character
      <<"-", "-">>,                 \* "--"    two prefix characters only
      <<"x">>,                      \* "x"     a bare value
      <<"-", "a">>,                 \* "-a"    a single flag
      <<"-", "a", "b">>,            \* "-ab"   a flag cluster
      <<"-", "-", "a">>,            \* "--a"   a long option
      <<"-", "1", ".", "5">>,       \* "-1.5"  a negative number
      <<"-", "0", "x", "1">>,       \* "-0x1"  a negative hexadecimal number
      <<"a", "-", "b">>,            \* "a-b"   a delimiter in second place
      <<"/", "a">> }                \* "/a"    a flag once '/' is a delimiter

\* The capture lists a configuration is built with.
CaptureLists ==
    { << >>, << <<"b">> >>, << <<"a">>, <<"b">> >> }

\* The delimiter strings a configuration is built with: the default and the
\* "-/" that the documentation of parseArgs names.
DelimStrings == { DEFAULT_OPT_DELIMITERS, <<"-", "/">> }

\* struct ParserConfig: every configuration the token lists are parsed under.
Configs ==
    [ _capture_list : CaptureLists,
      _type_delims : DelimStrings,
      _allow_negative_numbers : BOOLEAN ]

\* every token list of at most MaxArgs tokens
ArgLists == UNION { [1..n -> Tokens] : n \in 0..MaxArgs }

----------------------------------------------------------------------------
(* std::string helpers *)

Min(a, b) == IF a <= b THEN a ELSE b

\* std::string::substr(pos, n): the characters [pos, pos+n) clipped to the end
\* (pos is 0-based and is never beyond size() at the places it is called)
substr(str, pos, n) == SubSeq(str, pos + 1, Min(pos + n, Len(str)))

\* std::string::substr(pos): the characters from pos to the end
substrFrom(str, pos) == SubSeq(str, pos + 1, Len(str))

\* std::optional: std::nullopt and a held value
nullopt == << >>
some(v) == <<v>>

----------------------------------------------------------------------------
(* ParserConfig *)

\* str::pos_valid(_type_delims.find(c))
isDelim(c_cfg, c) ==
    \E i \in 1..Len(c_cfg._type_delims) : c_cfg._type_delims[i] = c

\* countPrefix as it would be if it counted the first character only
countPrefix_FirstOnly(c_cfg, str) ==
    IF str # << >> /\ isDelim(c_cfg, str[1]) THEN 1 ELSE 0

\* for (i = 0; i < str.size() && i < max; ++i) count += isDelim(str.at(i));
countPrefix(c_cfg, str) ==
    Cardinality({ i \in 1..Min(Len(str), CountPrefixMax) : isDelim(c_cfg, str[i]) })

\* allowCapture(std::string str)
allowCapture(c_cfg, str) ==
    IF str = << >> \/ c_cfg._capture_list = << >>
    THEN FALSE
    ELSE LET stripped == substrFrom(str, countPrefix(c_cfg, str))
         IN  \E i \in 1..Len(c_cfg._capture_list) : c_cfg._capture_list[i] = stripped

\* allowCapture(const char c): allowCapture(std::string(1u, c))
allowCaptureChar(c_cfg, c) == allowCapture(c_cfg, <<c>>)

----------------------------------------------------------------------------
(* VariantArgument values, as parseArgs constructs them *)

\* VariantArgument(Parameter)
MakeParameter(value) ==
    [type |-> "PARAMETER", first |-> value, second |-> nullopt]

\* VariantArgument(Option = std::pair<std::string, std::optional<std::string>>)
MakeOption(name, captured) ==
    [type |-> "OPTION", first |-> name, second |-> captured]

\* VariantArgument(Flag = std::pair<char, std::optional<std::string>>);
\* the symbol is kept as the one-character string name() makes of it
MakeFlag(ch, captured) ==
    [type |-> "FLAG", first |-> <<ch>>, second |-> captured]

\* where an element of cont came from: the token the cursor was on when the
\* iteration began, the character of that token (flags only, else 0) and the
\* token copied as its captured value (0 when none)
Prov(tok, ch, cap) == [tok |-> tok, ch |-> ch, cap |-> cap]

----------------------------------------------------------------------------
(* parseArgs *)

\* The capture test of both the Option and the Flag case:
\*   it + 1u != args.end() && cfg.allowCapture(key) && !cfg.isDelim((it + 1u)->at(0u))
\* evaluated left to right with short circuit; at(0u) of an empty string
\* throws std::out_of_range.
CaptureTest(c_cfg, c_args, c_it, eligible) ==
    IF ~(c_it + 1 <= Len(c_args)) THEN "no"
    ELSE IF ~eligible THEN "no"
    ELSE IF Len(c_args[c_it + 1]) = 0 THEN "out_of_range"
    ELSE IF isDelim(c_cfg, c_args[c_it + 1][1]) THEN "no"
    ELSE "yes"

\* hex_prefix as it would be were the "0x" test left out
hex_prefix_Never(arg, dashCount) == FALSE

\* const bool hex_prefix{ arg.substr(dashCount, 2ull) == "0x" }
hex_prefix(arg, dashCount) == substr(arg, dashCount, 2) = <<"0", "x">>

\* the lambda as it would be without the `|| ch == '.'`
IsNumberChar_NoDot(ch) == ch \in Digits

\* [](auto&& ch) { return isdigit(ch) || ch == '.'; }
IsNumberChar(ch) == ch \in Digits \/ ch = "."

\* std::all_of(arg.begin() + from, arg.end(), pred) with the lambda above
AllNumberChars(arg, from) ==
    \A i \in (from + 1)..Len(arg) : IsNumberChar(arg[i])

\* the condition of line 45: the token is parsed as a cluster of flags
ParsesAsFlags(arg, dashCount) ==
    LET hex == hex_prefix(arg, dashCount)
    IN  ~hex /\ ~AllNumberChars(arg, dashCount + (IF hex THEN 2 ELSE 0))

\* `*(it + 1u)`: the following token is copied but the cursor stays
CaptureNext_Peek(c_args, c_it) ==
    [it |-> c_it, value |-> c_args[c_it + 1], from |-> c_it + 1]

\* `*it++`: the token under the cursor is copied, then the cursor moves
CaptureNext_PostIncrement(c_args, c_it) ==
    [it |-> c_it + 1, value |-> c_args[c_it], from |-> c_it]

\* `*++++it`: the cursor moves two tokens on while the following one is copied
CaptureNext_SkipTwo(c_args, c_it) ==
    [it |-> c_it + 2, value |-> c_args[c_it + 1], from |-> c_it + 1]

\* `*++it` of lines 36 and 51: the cursor moves onto the following token, whose
\* value is copied as the captured value.
CaptureNext(c_args, c_it) ==
    [it |-> c_it + 1, value |-> c_args[c_it + 1], from |-> c_it + 1]

\* One turn of the inner loop (lines 47-53) for the character at 1-based
\* position ch of arg; st is the loop's state [it, cont, prov, thrown].
FlagChar(c_cfg, c_args, arg, tok, ch, st) ==
    LET test == CaptureTest(c_cfg, c_args, st.it, allowCaptureChar(c_cfg, arg[ch]))
        cap == CaptureNext(c_args, st.it)
    IN  CASE test = "out_of_range" ->
               [st EXCEPT !.thrown = TRUE]
          [] test = "yes" ->
               [st EXCEPT !.it = cap.it,
                          !.cont = Append(st.cont, MakeFlag(arg[ch], some(cap.value))),
                          !.prov = Append(st.prov, Prov(tok, ch, cap.from))]
          [] OTHER ->
               [st EXCEPT !.cont = Append(st.cont, MakeFlag(arg[ch], nullopt)),
                          !.prov = Append(st.prov, Prov(tok, ch, 0))]

\* the inner loop as it would be walking the characters right to left
RECURSIVE FlagLoop_Reversed(_, _, _, _, _, _)
FlagLoop_Reversed(c_cfg, c_args, arg, tok, ch, st) ==
    IF st.thrown \/ ch > Len(arg)
    THEN st
    ELSE LET rest == FlagLoop_Reversed(c_cfg, c_args, arg, tok, ch + 1, st)
         IN  IF rest.thrown THEN rest
             ELSE FlagChar(c_cfg, c_args, arg, tok, ch, rest)

\* for (auto ch{ arg.begin() + dashCount }; ch != arg.end(); ++ch) ...
RECURSIVE FlagLoop(_, _, _, _, _, _)
FlagLoop(c_cfg, c_args, arg, tok, ch, st) ==
    IF st.thrown \/ ch > Len(arg)
    THEN st
    ELSE FlagLoop(c_cfg, c_args, arg, tok, ch + 1,
                  FlagChar(c_cfg, c_args, arg, tok, ch, st))

\* the inner loop as it would begin at arg.begin(), the prefix included
FlagLoopBegin_AtStart(dashCount) == 1

\* the first character the inner loop visits: arg.begin() + dashCount
FlagLoopBegin(dashCount) == dashCount + 1

\* no Params / ParamsAPI object has been constructed, nothing returned
NoCall == [op |-> "none"]
NoRet == [kind |-> "none"]
NoFacade ==
    /\ _args = << >>
    /\ call = NoCall
    /\ ret = NoRet

TypeOK ==
    /\ args \in ArgLists
    /\ cfg \in Configs
    /\ it \in 1..(Len(args) + 1)
    /\ Len(cont) = Len(prov)
    /\ pc \in {"loop", "returned", "thrown"}

Init ==
    /\ args \in ArgLists
    /\ cfg \in Configs
    /\ it = 1
    /\ cont = << >>
    /\ prov = << >>
    /\ pc = "loop"
    /\ NoFacade

\* case 2u, lines 30-41
CaseOption ==
    /\ pc = "loop"
    /\ it <= Len(args)
    /\ countPrefix(cfg, args[it]) = 2
    /\ LET dashCount == countPrefix(cfg, args[it])
           test == CaptureTest(cfg, args, it, allowCapture(cfg, args[it]))
           cap == CaptureNext(args, it)
       IN  CASE test = "out_of_range" ->
                  /\ pc' = "thrown"
                  /\ UNCHANGED <<it, cont, prov>>
             [] test = "yes" ->
                  /\ cont' = Append(cont, MakeOption(substrFrom(args[it], dashCount),
                                                     some(cap.value)))
                  /\ prov' = Append(prov, Prov(it, 0, cap.from))
                  /\ it' = cap.it + 1
                  /\ pc' = pc
             [] OTHER ->
                  /\ cont' = Append(cont, MakeOption(substrFrom(args[it], dashCount), nullopt))
                  /\ prov' = Append(prov, Prov(it, 0, 0))
                  /\ it' = it + 1
                  /\ pc' = pc
    /\ UNCHANGED <<args, cfg, facade>>

\* case 1u with the condition of line 45 true, lines 42-56
CaseFlag ==
    /\ pc = "loop"
    /\ it <= Len(args)
    /\ countPrefix(cfg, args[it]) = 1
    /\ ParsesAsFlags(args[it], 1)
    /\ LET st == FlagLoop(cfg, args, args[it], it, FlagLoopBegin(1),
                          [it |-> it, cont |-> cont, prov |-> prov, thrown |-> FALSE])
       IN  IF st.thrown
           THEN /\ pc' = "thrown"
                /\ it' = st.it
                /\ cont' = st.cont
                /\ prov' = st.prov
           ELSE /\ pc' = pc
                /\ it' = st.it + 1
                /\ cont' = st.cont
                /\ prov' = st.prov
    /\ UNCHANGED <<args, cfg, facade>>

\* case 1u with the condition of line 45 false: [[fallthrough]] into case 0u
CaseFlagFallthrough ==
    /\ pc = "loop"
    /\ it <= Len(args)
    /\ countPrefix(cfg, args[it]) = 1
    /\ ~ParsesAsFlags(args[it], 1)
    /\ cont' = Append(cont, MakeParameter(args[it]))
    /\ prov' = Append(prov, Prov(it, 0, 0))
    /\ it' = it + 1
    /\ UNCHANGED <<args, cfg, pc, facade>>

\* case 0u, lines 59-62
CaseParameter ==
    /\ pc = "loop"
    /\ it <= Len(args)
    /\ countPrefix(cfg, args[it]) = 0
    /\ cont' = Append(cont, MakeParameter(args[it]))
    /\ prov' = Append(prov, Prov(it, 0, 0))
    /\ it' = it + 1
    /\ UNCHANGED <<args, cfg, pc, facade>>

\* it == args.end(): cont.shrink_to_fit(); return cont;
Return ==
    /\ pc = "loop"
    /\ it = Len(args) + 1
    /\ pc' = "returned"
    /\ UNCHANGED <<args, cfg, it, cont, prov, facade>>

Next ==
    \/ CaseOption
    \/ CaseFlag
    \/ CaseFlagFallthrough
    \/ CaseParameter
    \/ Return

Spec == Init /\ [][Next]_vars

\* the tokens parseArgs is run to its end on: one for every case of the switch,
\* the empty string that makes a capture throw, and a delimiter in second place
TerminationTokens ==
    { << >>, <<"-">>, <<"x">>, <<"-", "a">>, <<"-", "a", "b">>,
      <<"-", "-", "a">>, <<"a", "-", "b">> }

TerminationArgLists == UNION { [1..n -> TerminationTokens] : n \in 0..MaxArgs }

InitTerminates ==
    /\ args \in TerminationArgLists
    /\ cfg \in Configs
    /\ it = 1
    /\ cont = << >>
    /\ prov = << >>
    /\ pc = "loop"
    /\ NoFacade

\* parseArgs is one sequential loop: a step that can be taken is taken
SpecTerminates == InitTerminates /\ [][Next]_vars /\ WF_vars(Next)

----------------------------------------------------------------------------
(* VariantArgument: the accessors the query classes use *)

\* what a call returns: an iterator (a 1-based position, Len(_args)+1 being
\* _args.end()), a bool, a std::optional<std::string>, text written to a
\* stream, a vector of iterators, or the exception that ended it
RetPos(p) == [kind |-> "pos", val |-> p]
RetBool(b) == [kind |-> "bool", val |-> b]
RetOpt(o) == [kind |-> "optional", val |-> o]
RetText(t) == [kind |-> "text", val |-> t]
RetVec(v) == [kind |-> "vector", val |-> v]
Throws(what) == [kind |-> "throw", val |-> what]

\* VariantArgument::type()
type(a) == a.type

\* VariantArgument::name()
name(a) ==
    CASE a.type = "PARAMETER" -> a.first
      [] a.type = "OPTION" -> a.first
      [] a.type = "FLAG" -> a.first
      [] OTHER -> << >>

\* VariantArgument::hasv()
hasv(a) ==
    CASE a.type = "FLAG" -> a.second # nullopt
      [] a.type = "OPTION" -> a.second # nullopt
      [] OTHER -> FALSE

\* VariantArgument::getv<T>() for T = Flag or Option:
\*   return get<T>().second.value();
\* std::get<T> throws std::bad_variant_access when the argument holds another
\* alternative, std::optional::value() throws std::bad_optional_access when
\* nothing was captured.
getvTyped(a, T) ==
    IF a.type # T THEN Throws("bad_variant_access")
    ELSE IF a.second = nullopt THEN Throws("bad_optional_access")
    ELSE RetOpt(some(a.second[1]))

\* VariantArgument::getv()
getv(a) ==
    CASE a.type = "FLAG" -> getvTyped(a, "FLAG")
      [] a.type = "OPTION" -> getvTyped(a, "OPTION")
      [] OTHER -> RetOpt(nullopt)

\* operator<<(std::ostream&, const VariantArgument&): the text inserted
StreamArgument(a) ==
    CASE a.type = "PARAMETER" -> a.first
      [] a.type = "OPTION" -> a.first
      [] a.type = "FLAG" -> a.first
      [] OTHER -> << >>

----------------------------------------------------------------------------
(* Params *)

\* the test of one element in Params::find(const std::string&, off, check_captures)
ParamsMatchString(a, arg, check_captures) ==
    LET check_flags == (Len(arg) = 1)
    IN  CASE a.type = "PARAMETER" -> a.first = arg
          [] a.type = "OPTION" ->
                \/ a.first = arg
                \/ (check_captures /\ a.second # nullopt /\ a.second[1] = arg)
          [] a.type = "FLAG" ->
                /\ (check_captures \/ check_flags)
                /\ \/ (a.second # nullopt /\ a.second[1] = arg)
                   \/ (check_flags /\ a.first[1] = arg[1])
          [] OTHER -> FALSE

\* the char test as it would be if it compared the element's name
ParamsMatchChar_ByName(a, ch) == name(a) = <<ch>>

\* the test of one element in Params::find(const char&, off)
ParamsMatchChar(a, ch) ==
    CASE a.type = "FLAG" -> a.first[1] = ch
      [] OTHER -> FALSE

\* for (auto it{ off }; it != _args.end(); ++it) ... return _args.end();
\* of Params::find(const std::string&, const_iterator, bool)
RECURSIVE ParamsFindString(_, _, _, _)
ParamsFindString(c_args, arg, off, check_captures) ==
    IF off > Len(c_args) THEN Len(c_args) + 1
    ELSE IF ParamsMatchString(c_args[off], arg, check_captures) THEN off
    ELSE ParamsFindString(c_args, arg, off + 1, check_captures)

\* the same loop of Params::find(const char&, const_iterator)
RECURSIVE ParamsFindChar(_, _, _)
ParamsFindChar(c_args, ch, off) ==
    IF off > Len(c_args) THEN Len(c_args) + 1
    ELSE IF ParamsMatchChar(c_args[off], ch) THEN off
    ELSE ParamsFindChar(c_args, ch, off + 1)

\* A key is a std::string or a char: [kind |-> "string" | "char", val |-> ...].
\* Params::find(key, off) with check_captures left at its default, as findAll,
\* contains, check and getv call it.
ParamsFind(c_args, key, off) ==
    IF key.kind = "char"
    THEN ParamsFindChar(c_args, key.val, off)
    ELSE ParamsFindString(c_args, key.val, off, FALSE)

\* Params::getv(key, off), lines 275-281 and 288-294:
\*   if (off == _args.end()) return std::nullopt;
\*   const auto it{ find(key, off + 1) };
\*   return it == _args.end() ? std::nullopt : it->getv<Option>();
ParamsGetv(c_args, key, off) ==
    IF off = Len(c_args) + 1 THEN RetOpt(nullopt)
    ELSE LET pos == ParamsFind(c_args, key, off + 1)
         IN  IF pos = Len(c_args) + 1 THEN RetOpt(nullopt)
             ELSE getvTyped(c_args[pos], "OPTION")

\* Params::contains(key): find(key) != _args.end()
ParamsContains(c_args, key) == ParamsFind(c_args, key, 1) # Len(c_args) + 1

\* Params::check(key): contains(key)
ParamsCheck(c_args, key) == ParamsContains(c_args, key)

\* Params::check_opt / check_flag / check_param:
\*   const auto it{ find(key) }; return it != _args.end() && *it == Type::T;
ParamsCheckKind(c_args, key, T) ==
    LET pos == ParamsFind(c_args, key, 1)
    IN  pos # Len(c_args) + 1 /\ type(c_args[pos]) = T

----------------------------------------------------------------------------
(* ParamsAPI *)

\* to_string(arg): a char becomes std::string(1u, ch), a string stays
to_string(key) == IF key.kind = "char" THEN <<key.val>> ELSE key.val

\* ParamsAPI::find(arg, off):
\*   std::find_if(off, _args.end(), elem.name() == to_string(arg))
RECURSIVE APIFind(_, _, _)
APIFind(c_args, key, off) ==
    IF off > Len(c_args) THEN Len(c_args) + 1
    ELSE IF name(c_args[off]) = to_string(key) THEN off
    ELSE APIFind(c_args, key, off + 1)

\* the typed find as it would be without the test of elem.type()
APIFindTyped_AnyType(c_args, T, key, off) == APIFind(c_args, key, off)

\* ParamsAPI::find<SearchTy>(arg, off):
\*   std::find_if(off, _args.end(),
\*                elem.type() == target_type && elem.name() == to_string(arg))
RECURSIVE APIFindTyped(_, _, _, _)
APIFindTyped(c_args, T, key, off) ==
    IF off > Len(c_args) THEN Len(c_args) + 1
    ELSE IF type(c_args[off]) = T /\ name(c_args[off]) = to_string(key) THEN off
    ELSE APIFindTyped(c_args, T, key, off + 1)

\* ParamsAPI::getv(arg, off), lines 144-151
APIGetv(c_args, key, off) ==
    LET pos == APIFind(c_args, key, off)
    IN  IF pos # Len(c_args) + 1 /\ hasv(c_args[pos])
        THEN getv(c_args[pos])
        ELSE RetOpt(nullopt)

\* ParamsAPI::check(arg): find(to_string(arg)) != _args.end()
APICheck(c_args, key) == APIFind(c_args, key, 1) # Len(c_args) + 1

\* ParamsAPI::check<SearchTy>(arg), which check_opt, check_param and
\* check_flag forward to
APICheckKind(c_args, key, T) == APIFindTyped(c_args, T, key, 1) # Len(c_args) + 1


\* operator<<(std::ostream&, const ParamsAPI&): every argument, a space
\* after each but the last
RECURSIVE StreamAPI(_)
StreamAPI(c_args) ==
    IF c_args = << >> THEN << >>
    ELSE IF Len(c_args) = 1 THEN StreamArgument(c_args[1])
    ELSE StreamArgument(c_args[1]) \o <<" ">> \o StreamAPI(Tail(c_args))

\* operator<<(std::ostream&, const Params&): every argument, a space after
\* each
RECURSIVE StreamParams(_)
StreamParams(c_args) ==
    IF c_args = << >> THEN << >>
    ELSE StreamArgument(c_args[1]) \o <<" ">> \o StreamParams(Tail(c_args))

----------------------------------------------------------------------------
(* The query classes over a given container:
   Params(ContainerType) and ParamsAPI(ContainerType&&) *)

MaxSeq == 3

\* the arguments the containers are built from
Arguments ==
    { MakeParameter(<<"a">>),
      MakeParameter(<<"a", "b">>),
      MakeOption(<<"a">>, nullopt),
      MakeOption(<<"a", "b">>, some(<<"a">>)),
      MakeFlag("a", nullopt),
      MakeFlag("b", some(<<"a">>)) }

ArgumentLists == UNION { [1..n -> Arguments] : n \in 0..MaxSeq }

\* the keys of the queries: std::string keys and char keys
StringKeys == { [kind |-> "string", val |-> v] : v \in { <<"a">>, <<"a", "b">>, <<"b">> } }
CharKeys == { [kind |-> "char", val |-> c] : c \in { "a", "b" } }
Keys == StringKeys \cup CharKeys

Types == { "PARAMETER", "OPTION", "FLAG" }

\* the variables of a parseArgs call
parse == <<args, cfg, it, cont, prov, pc>>

\* the object exists and no call on it is in progress
Constructed == [op |-> "constructed"]
Ready == call = Constructed

\* _args.end() and the iterators a caller can pass as an offset
End == Len(_args) + 1
Offsets == 1..End

\* an object constructed from a container, no parseArgs call involved
InitFacade ==
    /\ args = << >>
    /\ cfg = [_capture_list |-> << >>, _type_delims |-> DEFAULT_OPT_DELIMITERS,
              _allow_negative_numbers |-> FALSE]
    /\ it = 1
    /\ cont = << >>
    /\ prov = << >>
    /\ pc = "returned"
    /\ _args \in ArgumentLists
    /\ call = Constructed
    /\ ret = NoRet

\* the call has returned (or thrown) and the object is used again
Idle ==
    /\ call.op \notin {"none", "constructed"}
    /\ ret # NoRet
    /\ call' = Constructed
    /\ ret' = NoRet
    /\ UNCHANGED <<parse, _args>>

\* operator<<(std::ostream&, const VariantArgument&) on element i
VariantArgument_stream(i) ==
    /\ Ready
    /\ i \in 1..Len(_args)
    /\ call' = [op |-> "stream", cls |-> "VariantArgument", i |-> i]
    /\ ret' = RetText(StreamArgument(_args[i]))
    /\ UNCHANGED <<parse, _args>>

\* VariantArgument::getv() on element i
VariantArgument_getv(i) ==
    /\ Ready
    /\ i \in 1..Len(_args)
    /\ call' = [op |-> "getv", cls |-> "VariantArgument", i |-> i]
    /\ ret' = getv(_args[i])
    /\ UNCHANGED <<parse, _args>>

\* Params::find(const std::string&, const_iterator, bool)
Params_find_string(key, off, check_captures) ==
    /\ Ready
    /\ key \in StringKeys
    /\ off \in Offsets
    /\ call' = [op |-> "find", cls |-> "Params", key |-> key, off |-> off,
                check_captures |-> check_captures]
    /\ ret' = RetPos(ParamsFindString(_args, key.val, off, check_captures))
    /\ UNCHANGED <<parse, _args>>

\* Params::find(const char&, const_iterator)
Params_find_char(key, off) ==
    /\ Ready
    /\ key \in CharKeys
    /\ off \in Offsets
    /\ call' = [op |-> "find", cls |-> "Params", key |-> key, off |-> off,
                check_captures |-> FALSE]
    /\ ret' = RetPos(ParamsFindChar(_args, key.val, off))
    /\ UNCHANGED <<parse, _args>>

\* ParamsAPI::find(arg, off)
ParamsAPI_find(key, off) ==
    /\ Ready
    /\ key \in Keys
    /\ off \in Offsets
    /\ call' = [op |-> "find", cls |-> "ParamsAPI", key |-> key, off |-> off,
                check_captures |-> FALSE]
    /\ ret' = RetPos(APIFind(_args, key, off))
    /\ UNCHANGED <<parse, _args>>

\* findAll as it would be if the search were resumed on the hit itself
FindAllRestart_Same(pos) == pos

\* findAll as it would be if the search were resumed two past the hit
FindAllRestart_Skip(pos) == pos + 2

\* where findAll resumes the search after a hit: find(arg, it + 1u)
FindAllRestart(pos) == pos + 1

\* Params::findAll(arg, off), the loop's initialisation:
\*   std::vector<const_iterator> vec; ... for (auto it{ find(arg, off) }; ...
Params_findAll(key, off) ==
    /\ Ready
    /\ key \in Keys
    /\ off \in Offsets
    /\ call' = [op |-> "findAll", cls |-> "Params", key |-> key, off |-> off,
                it |-> ParamsFind(_args, key, off), vec |-> << >>]
    /\ ret' = NoRet
    /\ UNCHANGED <<parse, _args>>

\* one iteration of the loop:
\*   it != _args.end(); vec.emplace_back(it); it = find(arg, it + 1u)
Params_findAll_loop ==
    /\ call.op = "findAll"
    /\ ret = NoRet
    /\ call.it # End
    /\ call' = [call EXCEPT !.vec = Append(@, call.it),
                            !.it = ParamsFind(_args, call.key, FindAllRestart(call.it))]
    /\ UNCHANGED <<parse, _args, ret>>

\* the loop's exit: it == _args.end(); return vec;
Params_findAll_return ==
    /\ call.op = "findAll"
    /\ ret = NoRet
    /\ call.it = End
    /\ ret' = RetVec(call.vec)
    /\ UNCHANGED <<parse, _args, call>>

\* Params::getv(const std::string&, off) and Params::getv(const char, off)
Params_getv(key, off) ==
    /\ Ready
    /\ key \in Keys
    /\ off \in Offsets
    /\ call' = [op |-> "getv", cls |-> "Params", key |-> key, off |-> off]
    /\ ret' = ParamsGetv(_args, key, off)
    /\ UNCHANGED <<parse, _args>>

\* ParamsAPI::getv(arg, off)
ParamsAPI_getv(key, off) ==
    /\ Ready
    /\ key \in Keys
    /\ off \in Offsets
    /\ call' = [op |-> "getv", cls |-> "ParamsAPI", key |-> key, off |-> off]
    /\ ret' = APIGetv(_args, key, off)
    /\ UNCHANGED <<parse, _args>>

\* Params::check(const std::string&) and Params::check(const char)
Params_check(key) ==
    /\ Ready
    /\ key \in Keys
    /\ call' = [op |-> "check", cls |-> "Params", key |-> key]
    /\ ret' = RetBool(ParamsCheck(_args, key))
    /\ UNCHANGED <<parse, _args>>

\* Params::check_opt(const std::string&), Params::check_param(const
\* std::string&) and Params::check_flag(const char)
Params_check_kind(key, T) ==
    /\ Ready
    /\ key \in (IF T = "FLAG" THEN CharKeys ELSE StringKeys)
    /\ T \in Types
    /\ call' = [op |-> "check_kind", cls |-> "Params", key |-> key, T |-> T]
    /\ ret' = RetBool(ParamsCheckKind(_args, key, T))
    /\ UNCHANGED <<parse, _args>>

\* ParamsAPI::check(arg)
ParamsAPI_check(key) ==
    /\ Ready
    /\ key \in Keys
    /\ call' = [op |-> "check", cls |-> "ParamsAPI", key |-> key]
    /\ ret' = RetBool(APICheck(_args, key))
    /\ UNCHANGED <<parse, _args>>

\* ParamsAPI::check_opt / check_param / check_flag, any key type
ParamsAPI_check_kind(key, T) ==
    /\ Ready
    /\ key \in Keys
    /\ T \in Types
    /\ call' = [op |-> "check_kind", cls |-> "ParamsAPI", key |-> key, T |-> T]
    /\ ret' = RetBool(APICheckKind(_args, key, T))
    /\ UNCHANGED <<parse, _args>>

\* the values a VariantType can hold, by std::variant index: std::monostate,
\* Parameter, Option, Flag
VariantValues ==
    { [index |-> 0, first |-> << >>, second |-> nullopt],
      [index |-> 1, first |-> <<"a">>, second |-> nullopt],
      [index |-> 2, first |-> <<"a">>, second |-> nullopt],
      [index |-> 2, first |-> <<"a">>, second |-> some(<<"b">>)],
      [index |-> 3, first |-> <<"a">>, second |-> nullopt],
      [index |-> 3, first |-> <<"a">>, second |-> some(<<"b">>)] }

\* determineVariantType as it would be with the cases of Option and Flag
\* exchanged
determineVariantType_Exchanged(index) ==
    CASE index = 0 -> "NULL_TYPE"
      [] index = 1 -> "PARAMETER"
      [] index = 2 -> "FLAG"
      [] index = 3 -> "OPTION"

\* determineVariantType(var): switch (var.index())
determineVariantType(index) ==
    CASE index = 0 -> "NULL_TYPE"
      [] index = 1 -> "PARAMETER"
      [] index = 2 -> "OPTION"
      [] index = 3 -> "FLAG"

\* VariantArgument(VariantType value) :
\*   _arg{ std::move(value) }, _type{ determineVariantType(_arg) }
VariantArgument(value) ==
    [type |-> determineVariantType(value.index),
     first |-> value.first, second |-> value.second]

\* the std::variant index of the alternative T names in get<T>()
IndexOf(T) ==
    CASE T = "PARAMETER" -> 1
      [] T = "OPTION" -> 2
      [] T = "FLAG" -> 3

\* VariantArgument a(value); the object is kept in ret
VariantArgument_construct(value) ==
    /\ Ready
    /\ value \in VariantValues
    /\ call' = [op |-> "construct", cls |-> "VariantArgument", value |-> value]
    /\ ret' = [kind |-> "argument", val |-> VariantArgument(value)]
    /\ UNCHANGED <<parse, _args>>

\* a.get<T>() on the object just constructed: std::get<T>(_arg), which
\* throws std::bad_variant_access unless _arg holds the alternative T
VariantArgument_get(T) ==
    /\ call.op = "construct"
    /\ T \in Types
    /\ call' = [op |-> "get", cls |-> "VariantArgument", value |-> call.value,
                arg |-> ret.val, T |-> T]
    /\ ret' = IF call.value.index = IndexOf(T)
              THEN [kind |-> "payload", first |-> call.value.first,
                    second |-> call.value.second]
              ELSE Throws("bad_variant_access")
    /\ UNCHANGED <<parse, _args>>

\* a == o: _type == o._type && _arg == o._arg
VariantEq(a, o) ==
    a.type = o.type /\ (a.first = o.first /\ a.second = o.second)

\* a != o: _type == o._type && _arg == o._arg
VariantNe(a, o) ==
    a.type = o.type /\ (a.first = o.first /\ a.second = o.second)

\* _args[i] == _args[j] and _args[i] != _args[j]
VariantArgument_compare(i, j, opr) ==
    /\ Ready
    /\ i \in 1..Len(_args)
    /\ j \in 1..Len(_args)
    /\ opr \in {"==", "!="}
    /\ call' = [op |-> "compare", cls |-> "VariantArgument", i |-> i, j |-> j,
                opr |-> opr]
    /\ ret' = RetBool(IF opr = "==" THEN VariantEq(_args[i], _args[j])
                      ELSE VariantNe(_args[i], _args[j]))
    /\ UNCHANGED <<parse, _args>>

\* Params::contains(const std::string& arg, const bool check_captures) and
\* Params::contains(const char& arg): return find(arg) != _args.end();
Params_contains(key, check_captures) ==
    /\ Ready
    /\ key \in Keys
    /\ key.kind = "char" => ~check_captures
    /\ call' = [op |-> "contains", cls |-> "Params", key |-> key,
                check_captures |-> check_captures]
    /\ ret' = RetBool(ParamsContains(_args, key))
    /\ UNCHANGED <<parse, _args>>

\* the presence queries of test_check, made on a Params and on a ParamsAPI
\* built from the same container: check(key) for T = "ANY", else check_opt /
\* check_param (string keys) and check_flag (char keys)
compare_check(key, T) ==
    /\ Ready
    /\ key \in Keys
    /\ T \in Types \cup {"ANY"}
    /\ T = "FLAG" => key.kind = "char"
    /\ T \in {"OPTION", "PARAMETER"} => key.kind = "string"
    /\ call' = [op |-> "compare_check", cls |-> "test", key |-> key, T |-> T]
    /\ ret' = [kind |-> "bools",
               left |-> IF T = "ANY" THEN ParamsCheck(_args, key)
                        ELSE ParamsCheckKind(_args, key, T),
               right |-> IF T = "ANY" THEN APICheck(_args, key)
                         ELSE APICheckKind(_args, key, T)]
    /\ UNCHANGED <<parse, _args>>

\* at as it would be if it moved the element out of the container
Params_at_Moving(pos) ==
    /\ Ready
    /\ pos \in Offsets
    /\ call' = [op |-> "at", cls |-> "Params", pos |-> pos]
    /\ ret' = IF pos # End THEN [kind |-> "argument", val |-> _args[pos]]
              ELSE Throws("out_of_range")
    /\ _args' = IF pos # End
                THEN [_args EXCEPT ![pos] = VariantArgument([index |-> 0,
                                      first |-> << >>, second |-> nullopt])]
                ELSE _args
    /\ UNCHANGED parse

\* Params::at(pos) and ParamsAPI::at(pos): return _args.at(pos), a copy;
\* std::vector::at throws std::out_of_range past the last element
Params_at(pos) ==
    /\ Ready
    /\ pos \in Offsets
    /\ call' = [op |-> "at", cls |-> "Params", pos |-> pos]
    /\ ret' = IF pos # End THEN [kind |-> "argument", val |-> _args[pos]]
              ELSE Throws("out_of_range")
    /\ UNCHANGED <<parse, _args>>

\* Params::getAllWithType<T>(): the arguments of type T in order
Params_getAllWithType(T) ==
    /\ Ready
    /\ T \in Types
    /\ call' = [op |-> "getAllWithType", cls |-> "Params", T |-> T]
    /\ ret' = RetVec(SelectSeq(_args, LAMBDA a : type(a) = T))
    /\ UNCHANGED <<parse, _args>>

\* var::variadic_or and var::variadic_and of two booleans
variadic_or(b1, b2) == b1 \/ b2
variadic_and(b1, b2) == b1 /\ b2

\* Params::check(args...) and Params::check_all(args...) with two keys
Params_check_variadic(key1, key2, all) ==
    /\ Ready
    /\ key1 \in Keys
    /\ key2 \in Keys
    /\ call' = [op |-> "check_variadic", cls |-> "Params", key |-> key1,
                key2 |-> key2, all |-> all]
    /\ ret' = RetBool(IF all
                      THEN variadic_and(ParamsCheck(_args, key1),
                                        ParamsCheck(_args, key2))
                      ELSE variadic_or(ParamsCheck(_args, key1),
                                       ParamsCheck(_args, key2)))
    /\ UNCHANGED <<parse, _args>>

\* test_compare_output(left, right) on a Params and a ParamsAPI made from
\* the same container: left_buffer << left; right_buffer << right;
compare_output ==
    /\ Ready
    /\ call' = [op |-> "compare_output", cls |-> "test"]
    /\ ret' = [kind |-> "texts", left |-> StreamParams(_args),
               right |-> StreamAPI(_args)]
    /\ UNCHANGED <<parse, _args>>

NextFacade ==
    \/ \E i \in 1..Len(_args) : VariantArgument_stream(i)
    \/ \E i \in 1..Len(_args) : VariantArgument_getv(i)
    \/ \E key \in Keys, off \in Offsets, cc \in BOOLEAN : Params_find_string(key, off, cc)
    \/ \E key \in Keys, off \in Offsets : Params_find_char(key, off)
    \/ \E key \in Keys, off \in Offsets : ParamsAPI_find(key, off)
    \/ \E key \in Keys, off \in Offsets : Params_findAll(key, off)
    \/ Params_findAll_loop
    \/ Params_findAll_return
    \/ \E key \in Keys, off \in Offsets : Params_getv(key, off)
    \/ \E key \in Keys, off \in Offsets : ParamsAPI_getv(key, off)
    \/ \E key \in Keys : Params_check(key)
    \/ \E key \in Keys, T \in Types : Params_check_kind(key, T)
    \/ \E key \in Keys : ParamsAPI_check(key)
    \/ \E key \in Keys, T \in Types : ParamsAPI_check_kind(key, T)
    \/ compare_output
    \/ \E value \in VariantValues : VariantArgument_construct(value)
    \/ \E T \in Types : VariantArgument_get(T)
    \/ \E i, j \in 1..Len(_args), opr \in {"==", "!="} :
          VariantArgument_compare(i, j, opr)
    \/ \E key \in Keys, cc \in BOOLEAN : Params_contains(key, cc)
    \/ \E key \in Keys, T \in Types \cup {"ANY"} : compare_check(key, T)
    \/ Idle

SpecFacade == InitFacade /\ [][NextFacade]_vars

----------------------------------------------------------------------------
(* Repeated finds of one key on one object *)

\* find as it would be if it searched from the start whatever the offset
Find_FromBegin(cls, key, off, check_captures) ==
    IF cls = "ParamsAPI" THEN APIFind(_args, key, 1)
    ELSE IF key.kind = "char" THEN ParamsFindChar(_args, key.val, 1)
    ELSE ParamsFindString(_args, key.val, 1, check_captures)

\* the find overload the class has for the key: ParamsAPI::find,
\* Params::find(const char&, off), Params::find(const std::string&, off, bool)
Find(cls, key, off, check_captures) ==
    IF cls = "ParamsAPI" THEN APIFind(_args, key, off)
    ELSE IF key.kind = "char" THEN ParamsFindChar(_args, key.val, off)
    ELSE ParamsFindString(_args, key.val, off, check_captures)

\* after find(key, a) has returned, find(key, b) with a <= b on the same
\* object; the first call and its result are remembered in prev
find_again(off) ==
    /\ call.op = "find"
    /\ off \in call.off..End
    /\ call' = [op |-> "find_again", cls |-> call.cls, key |-> call.key,
                off |-> off, check_captures |-> call.check_captures,
                prev |-> [off |-> call.off, pos |-> ret.val]]
    /\ ret' = RetPos(Find(call.cls, call.key, off, call.check_captures))
    /\ UNCHANGED <<parse, _args>>

NextFind ==
    \/ \E key \in Keys, off \in Offsets, cc \in BOOLEAN : Params_find_string(key, off, cc)
    \/ \E key \in Keys, off \in Offsets : Params_find_char(key, off)
    \/ \E key \in Keys, off \in Offsets : ParamsAPI_find(key, off)
    \/ \E off \in Offsets : find_again(off)
    \/ Idle

SpecFind == InitFacade /\ [][NextFind]_vars

----------------------------------------------------------------------------
(* ParserConfig queried on its own *)

\* the strings countPrefix and allowCapture are called with
ConfigStrings ==
    Tokens \cup { <<"b">>, <<"-", "b">>, <<"-", "-", "b">>, <<"/", "/", "a">> }

\* the characters allowCapture(const char) is called with
ConfigChars == { "a", "b", "x", "-", "/" }

\* a ParserConfig exists and no call on it is in progress
Configured == [op |-> "configured"]

InitConfig ==
    /\ args = << >>
    /\ cfg \in Configs
    /\ it = 1
    /\ cont = << >>
    /\ prov = << >>
    /\ pc = "returned"
    /\ _args = << >>
    /\ call = Configured
    /\ ret = NoRet

\* cfg.countPrefix(str)
ParserConfig_countPrefix(str) ==
    /\ call = Configured
    /\ str \in ConfigStrings
    /\ call' = [op |-> "countPrefix", cls |-> "ParserConfig", str |-> str]
    /\ ret' = [kind |-> "count", val |-> countPrefix(cfg, str)]
    /\ UNCHANGED <<parse, _args>>

\* cfg.allowCapture(std::string str)
ParserConfig_allowCapture(str) ==
    /\ call = Configured
    /\ str \in ConfigStrings
    /\ call' = [op |-> "allowCapture", cls |-> "ParserConfig", str |-> str]
    /\ ret' = RetBool(allowCapture(cfg, str))
    /\ UNCHANGED <<parse, _args>>

\* cfg.allowCapture(const char c)
ParserConfig_allowCaptureChar(c) ==
    /\ call = Configured
    /\ c \in ConfigChars
    /\ call' = [op |-> "allowCapture", cls |-> "ParserConfig", str |-> <<c>>]
    /\ ret' = RetBool(allowCaptureChar(cfg, c))
    /\ UNCHANGED <<parse, _args>>

\* the call has returned and the configuration is queried again
ConfigIdle ==
    /\ call.op \in {"countPrefix", "allowCapture"}
    /\ call' = Configured
    /\ ret' = NoRet
    /\ UNCHANGED <<parse, _args>>

NextConfig ==
    \/ \E str \in ConfigStrings : ParserConfig_countPrefix(str)
    \/ \E str \in ConfigStrings : ParserConfig_allowCapture(str)
    \/ \E c \in ConfigChars : ParserConfig_allowCaptureChar(c)
    \/ ConfigIdle

SpecConfig == InitConfig /\ [][NextConfig]_vars

----------------------------------------------------------------------------
(* Vocabulary of the properties.  These read the tokens and the            *)
(* configuration directly; they do not go through the classifier's own     *)
(* tests.                                                                  *)

\* c is one of the configured prefix characters
IsDelimiter(c) == \E i \in 1..Len(cfg._type_delims) : cfg._type_delims[i] = c

\* the token starts with a prefix character
StartsWithDelimiter(t) == Len(t) >= 1 /\ IsDelimiter(t[1])

\* the number of leading prefix characters of a token, counted up to two
LeadingDelimiters(t) ==
    IF ~StartsWithDelimiter(t) THEN 0
    ELSE IF Len(t) >= 2 /\ IsDelimiter(t[2]) THEN 2
    ELSE 1

\* a token with its first n characters removed
Without(t, n) == [i \in 1..(Len(t) - n) |-> t[i + n]]

\* the remainder is made of digits and '.' only
NumberPattern(r) == \A i \in 1..Len(r) : r[i] \in Digits \cup {"."}

\* the remainder starts with "0x"
HexPrefixed(r) == Len(r) >= 2 /\ r[1] = "0" /\ r[2] = "x"

\* the name is one of the capture list's entries
InCaptureList(nm) ==
    \E i \in 1..Len(cfg._capture_list) : cfg._capture_list[i] = nm

\* the positions of cont that were emitted for token i
EmittedFrom(i) == { k \in 1..Len(cont) : prov[k].tok = i }

\* token i was copied as some argument's captured value
Captured(i) == \E k \in 1..Len(cont) : prov[k].cap = i

\* the classifier has been at token i: the cursor is past it, or stopped
\* on it by an exception
Reached(i) ==
    /\ i \in 1..Len(args)
    /\ i < it \/ (pc = "thrown" /\ i = it)

\* token i has gone through a loop iteration of its own
Classified(i) == Reached(i) /\ ~Captured(i)

\* token i was emitted as one Flag per character of its remainder after the
\* first n characters, in left-to-right order
EmittedAsFlags(i, n) ==
    /\ Cardinality(EmittedFrom(i)) = Len(args[i]) - n
    /\ \A k \in EmittedFrom(i) :
          /\ cont[k].type = "FLAG"
          /\ prov[k].ch \in (n + 1)..Len(args[i])
          /\ cont[k].first = <<args[i][prov[k].ch]>>
    /\ \A k1, k2 \in EmittedFrom(i) : k1 < k2 => prov[k1].ch < prov[k2].ch

\* token i was emitted as exactly one Parameter holding the whole token
EmittedAsParameter(i) ==
    \E k \in 1..Len(cont) :
        /\ EmittedFrom(i) = {k}
        /\ cont[k] = MakeParameter(args[i])

\* the capturing Flags among the first k elements that came from token i
CapturingFlagsUpTo(i, k) ==
    { j \in 1..k : prov[j].tok = i /\ cont[j].type = "FLAG" /\ prov[j].cap # 0 }

----------------------------------------------------------------------------
(* The properties *)

\* C1 (as stated): in a flag cluster at most one character captures a token;
\* no two Flags that came from the same token both hold a captured value.
C1_AtMostOneCapturePerCluster ==
    \A j, k \in 1..Len(cont) :
        (j < k /\ prov[j].tok = prov[k].tok
               /\ cont[j].type = "FLAG" /\ cont[k].type = "FLAG")
        => ~(cont[j].second # nullopt /\ cont[k].second # nullopt)

\* C1 (amended): every Flag of a cluster holds at most one captured value, and
\* the capturing characters of a cluster, left to right, capture the successive
\* tokens that follow it: the n-th capturing character of the cluster at token
\* i holds token i+n, so a later character can capture as well.
C1_ClusterCapturesSuccessiveTokens ==
    \A k \in 1..Len(cont) :
        (cont[k].type = "FLAG" /\ cont[k].second # nullopt)
        => LET i == prov[k].tok
               n == Cardinality(CapturingFlagsUpTo(i, k))
           IN  /\ i + n <= Len(args)
               /\ prov[k].cap = i + n
               /\ cont[k].second = some(args[i + n])

\* C1 witness: two characters of one cluster have both captured
C1_Witness ==
    \E j, k \in 1..Len(cont) :
        /\ j < k /\ prov[j].tok = prov[k].tok
        /\ cont[j].type = "FLAG" /\ cont[k].type = "FLAG"
        /\ cont[j].second # nullopt /\ cont[k].second # nullopt

\* C2 (as stated): with allow_negative_numbers = true a one-prefix token whose
\* remainder starts with "0x" is emitted as one Flag per remainder character.
C2_HexTokenIsFlags ==
    cfg._allow_negative_numbers
    => \A i \in 1..Len(args) :
          (Classified(i) /\ LeadingDelimiters(args[i]) = 1
                         /\ HexPrefixed(Without(args[i], 1)))
          => EmittedAsFlags(i, 1)

\* C2 (amended): with allow_negative_numbers = true a one-prefix token whose
\* remainder starts with "0x" is emitted as exactly one Parameter holding the
\* whole token, prefix included.
C2_HexTokenIsParameter ==
    cfg._allow_negative_numbers
    => \A i \in 1..Len(args) :
          (Classified(i) /\ LeadingDelimiters(args[i]) = 1
                         /\ HexPrefixed(Without(args[i], 1)))
          => EmittedAsParameter(i)

\* C2 witness: a hex-prefixed one-prefix token has been classified under
\* allow_negative_numbers = true
C2_Witness ==
    /\ cfg._allow_negative_numbers
    /\ \E i \in 1..Len(args) :
          /\ Classified(i) /\ LeadingDelimiters(args[i]) = 1
          /\ HexPrefixed(Without(args[i], 1))

\* C3: with allow_negative_numbers = false a one-prefix token whose remainder
\* is a non-empty run of digits and '.' is emitted as one Flag per remainder
\* character, not as a Parameter.
C3_NumberIsFlagsWhenDisallowed ==
    ~cfg._allow_negative_numbers
    => \A i \in 1..Len(args) :
          (Classified(i) /\ LeadingDelimiters(args[i]) = 1
                         /\ Len(args[i]) > 1
                         /\ NumberPattern(Without(args[i], 1)))
          => EmittedAsFlags(i, 1)

\* C4: with allow_negative_numbers = true every one-prefix token whose
\* remainder is digits and '.' only and is not hex-prefixed is emitted as
\* exactly one Parameter holding the whole token, and no Flag comes from it.
C4_NumberIsParameter ==
    cfg._allow_negative_numbers
    => \A i \in 1..Len(args) :
          (Classified(i) /\ LeadingDelimiters(args[i]) = 1
                         /\ NumberPattern(Without(args[i], 1))
                         /\ ~HexPrefixed(Without(args[i], 1)))
          => EmittedAsParameter(i)

\* C4 witness: a negative number with a '.' has been classified under
\* allow_negative_numbers = true
C4_Witness ==
    /\ cfg._allow_negative_numbers
    /\ \E i \in 1..Len(args) :
          /\ Classified(i) /\ LeadingDelimiters(args[i]) = 1
          /\ Len(args[i]) > 2
          /\ NumberPattern(Without(args[i], 1))
          /\ \E c \in 2..Len(args[i]) : args[i][c] = "."

\* C5: parseArgs never fails: it never ends by raising an error.
C5_NeverFails == pc # "thrown"

\* C6: every two-prefix token gives exactly one Option named by the token
\* without its two prefix characters, whose captured value is the following
\* token exactly when there is one, the name is in the capture list and the
\* following token does not start with a delimiter, and is none otherwise.
C6_OptionAndItsCapture ==
    \A i \in 1..Len(args) :
        (Reached(i) /\ LeadingDelimiters(args[i]) = 2)
        => \E k \in 1..Len(cont) :
              /\ EmittedFrom(i) = {k}
              /\ cont[k].type = "OPTION"
              /\ cont[k].first = Without(args[i], 2)
              /\ cont[k].second =
                    IF /\ i + 1 <= Len(args)
                       /\ InCaptureList(Without(args[i], 2))
                       /\ ~StartsWithDelimiter(args[i + 1])
                    THEN some(args[i + 1])
                    ELSE nullopt

\* C7: a token copied as a captured value is never the origin of an argument
\* of its own, and no token is the captured value of two arguments.
C7_CaptureExclusivity ==
    \A k \in 1..Len(cont) :
        prov[k].cap # 0
        => /\ cont[k].second = some(args[prov[k].cap])
           /\ \A j \in 1..Len(cont) : prov[j].tok # prov[k].cap
           /\ \A j \in 1..Len(cont) : j # k => prov[j].cap # prov[k].cap

\* C7 witness: parseArgs has returned a sequence in which an argument holds
\* a captured value and is followed by an argument from a later token
C7_Witness ==
    /\ pc = "returned"
    /\ \E k, j \in 1..Len(cont) :
          /\ prov[k].cap # 0
          /\ k < j
          /\ prov[j].tok > prov[k].cap

\* C8: output order follows input order: an earlier argument never comes from
\* a later token, the arguments of one token are in left-to-right character
\* order, and every argument carries the text of the token it came from.
C8_OrderPreserved ==
    /\ \A j, k \in 1..Len(cont) :
          j < k => /\ prov[j].tok <= prov[k].tok
                   /\ prov[j].tok = prov[k].tok => prov[j].ch < prov[k].ch
    /\ \A k \in 1..Len(cont) :
          /\ prov[k].tok \in 1..Len(args)
          /\ cont[k].type = "PARAMETER" => cont[k].first = args[prov[k].tok]
          /\ cont[k].type = "OPTION" => cont[k].first = Without(args[prov[k].tok], 2)
          /\ cont[k].type = "FLAG" =>
                /\ prov[k].ch \in 1..Len(args[prov[k].tok])
                /\ cont[k].first = <<args[prov[k].tok][prov[k].ch]>>

\* C8 witness: parseArgs has returned a sequence holding two Flags of one
\* cluster followed by an argument from a later token
C8_Witness ==
    /\ pc = "returned"
    /\ \E j, k, m \in 1..Len(cont) :
          /\ j < k /\ k < m
          /\ cont[j].type = "FLAG" /\ cont[k].type = "FLAG"
          /\ prov[j].tok = prov[k].tok
          /\ prov[k].tok < prov[m].tok

\* C9 (as stated): with an empty capture list a one-prefix token whose
\* remainder r is not made of digits and '.' only is emitted as |r| Flags,
\* one per character of r in order, none with a captured value.  It is
\* stated for the configurations with allow_negative_numbers = true, the
\* default, which is where the token lists of the claim are parsed.
C9_ClusterIsFlags ==
    (cfg._capture_list = << >> /\ cfg._allow_negative_numbers)
    => \A i \in 1..Len(args) :
          (Classified(i) /\ LeadingDelimiters(args[i]) = 1
                         /\ ~NumberPattern(Without(args[i], 1)))
          => /\ EmittedAsFlags(i, 1)
             /\ \A k \in EmittedFrom(i) : cont[k].second = nullopt

\* C9 (amended): with an empty capture list a one-prefix token whose
\* remainder r is neither made of digits and '.' only nor hex-prefixed is
\* emitted as |r| Flags, one per character of r in order, none with a
\* captured value.
C9_NonHexClusterIsFlags ==
    cfg._capture_list = << >>
    => \A i \in 1..Len(args) :
          (Classified(i) /\ LeadingDelimiters(args[i]) = 1
                         /\ ~NumberPattern(Without(args[i], 1))
                         /\ ~HexPrefixed(Without(args[i], 1)))
          => /\ EmittedAsFlags(i, 1)
             /\ \A k \in EmittedFrom(i) : cont[k].second = nullopt

\* C9 witness: a cluster of two characters has been classified under an
\* empty capture list
C9_Witness ==
    /\ cfg._capture_list = << >>
    /\ \E i \in 1..Len(args) :
          /\ Classified(i) /\ LeadingDelimiters(args[i]) = 1
          /\ Len(args[i]) = 3
          /\ ~NumberPattern(Without(args[i], 1))
          /\ ~HexPrefixed(Without(args[i], 1))

\* C10: every argument parseArgs produces has a non-empty name: no Option has
\* an empty name, no Parameter an empty value.
C10_NamesNeverEmpty ==
    \A k \in 1..Len(cont) : cont[k].first # << >>

----------------------------------------------------------------------------
(* The query classes over a parsed command line:
   ParamsAPI(std::vector<std::string>&&, cfg), Params(argc, argv, cfg),
   and a second parse of the text the object was streamed to *)

MaxTokens == 2

PipelineTokens ==
    { <<"a">>, <<"-", "a">>, <<"-", "a", "b">>, <<"-", "-", "a">>,
      <<"-", "1", ".", "5">> }

PipelineArgLists == UNION { [1..n -> PipelineTokens] : n \in 0..MaxTokens }

PipelineConfigs ==
    { c \in Configs : c._type_delims = DEFAULT_OPT_DELIMITERS
                      /\ c._allow_negative_numbers }

InitPipeline ==
    /\ args \in PipelineArgLists
    /\ cfg \in PipelineConfigs
    /\ it = 1
    /\ cont = << >>
    /\ prov = << >>
    /\ pc = "loop"
    /\ NoFacade

\* the constructor's member initialiser: _args{ parseArgs(...) }
Construct ==
    /\ pc = "returned"
    /\ call = NoCall
    /\ _args' = cont
    /\ call' = Constructed
    /\ UNCHANGED <<parse, ret>>

\* vectorize(stream, true, " "): the pieces of the text between spaces, as
\* getline extracts them (no piece after a final space; the pieces hold no
\* white space for strip_line to remove)
RECURSIVE vectorize(_, _)
vectorize(text, ln) ==
    IF text = << >> THEN (IF ln = << >> THEN << >> ELSE <<ln>>)
    ELSE IF Head(text) = " " THEN <<ln>> \o vectorize(Tail(text), << >>)
    ELSE vectorize(Tail(text), Append(ln, Head(text)))

\* os << api for the ParamsAPI object
ParamsAPI_stream ==
    /\ Ready
    /\ call' = [op |-> "stream", cls |-> "ParamsAPI"]
    /\ ret' = RetText(StreamAPI(_args))
    /\ UNCHANGED <<parse, _args>>

\* parseStream on the text written: parseArgs(vectorize(buffer, true, " "), cfg)
\* is entered; the object and the tokens it was made from are kept
Reparse ==
    /\ call.op = "stream"
    /\ call.cls = "ParamsAPI"
    /\ args' = vectorize(ret.val, << >>)
    /\ it' = 1
    /\ cont' = << >>
    /\ prov' = << >>
    /\ pc' = "loop"
    /\ call' = [op |-> "reparse", cls |-> "ParamsAPI", tokens |-> args]
    /\ ret' = NoRet
    /\ UNCHANGED <<cfg, _args>>

NextPipeline ==
    \/ CaseOption
    \/ CaseFlag
    \/ CaseFlagFallthrough
    \/ CaseParameter
    \/ Return
    \/ Construct
    \/ ParamsAPI_stream
    \/ Reparse
    \/ \E key \in Keys : Params_check(key)
    \/ \E key \in Keys, T \in Types : Params_check_kind(key, T)
    \/ \E key \in Keys : ParamsAPI_check(key)
    \/ \E key \in Keys, T \in Types : ParamsAPI_check_kind(key, T)
    \/ \E key1 \in StringKeys, key2 \in CharKeys, all \in BOOLEAN :
          Params_check_variadic(key1, key2, all)
    \/ \E key \in Keys, off \in Offsets, cc \in BOOLEAN : Params_find_string(key, off, cc)
    \/ \E key \in Keys, off \in Offsets : Params_find_char(key, off)
    \/ \E key \in Keys, off \in Offsets : ParamsAPI_find(key, off)
    \/ \E key \in Keys, off \in Offsets : Params_findAll(key, off)
    \/ Params_findAll_loop
    \/ Params_findAll_return
    \/ \E key \in Keys, cc \in BOOLEAN : Params_contains(key, cc)
    \/ \E key \in Keys, off \in Offsets : Params_getv(key, off)
    \/ \E key \in Keys, off \in Offsets : ParamsAPI_getv(key, off)
    \/ \E T \in Types : Params_getAllWithType(T)
    \/ \E pos \in Offsets : Params_at(pos)
    \/ \E i \in 1..Len(_args) : VariantArgument_stream(i)
    \/ Idle

SpecPipeline == InitPipeline /\ [][NextPipeline]_vars

----------------------------------------------------------------------------
(* Vocabulary of the properties of the query classes *)

\* the text of a key
KeyText(key) == IF key.kind = "char" THEN <<key.val>> ELSE key.val

\* the argument carries a captured value
HasCapture(a) == a.type \in {"OPTION", "FLAG"} /\ a.second # << >>

\* the argument matches the key by Parameter value, by Option name or, for a
\* one-character key, by Flag symbol
MatchesByName(a, text) ==
    \/ a.type = "PARAMETER" /\ a.first = text
    \/ a.type = "OPTION" /\ a.first = text
    \/ a.type = "FLAG" /\ Len(text) = 1 /\ a.first = text

\* the argument is a Flag with this symbol
IsFlagWithSymbol(a, ch) == a.type = "FLAG" /\ a.first = <<ch>>

\* the predicate Params::find applies to an element when check_captures is
\* left false: a char key matches a Flag's symbol; a string key matches as
\* above, and a one-character string key also matches a Flag whose captured
\* value is the key
ParamsFindMatches(a, key) ==
    IF key.kind = "char" THEN IsFlagWithSymbol(a, key.val)
    ELSE \/ MatchesByName(a, key.val)
         \/ a.type = "FLAG" /\ Len(key.val) = 1 /\ a.second = <<key.val>>

\* the predicate ParamsAPI::find applies: the name is the key's text
APIFindMatches(a, key) == a.first = KeyText(key)

FindMatches(cls, a, key) ==
    IF cls = "Params" THEN ParamsFindMatches(a, key) ELSE APIFindMatches(a, key)

\* the positions from off on whose argument the class's find matches
MatchingFrom(cls, key, off) ==
    { p \in off..Len(_args) : FindMatches(cls, _args[p], key) }

\* the least of a non-empty set of positions
Least(S) == CHOOSE p \in S : \A q \in S : p <= q

\* the first position from off on that the class's find matches, or end
FirstMatch(cls, key, off) ==
    IF MatchingFrom(cls, key, off) = {} THEN End
    ELSE Least(MatchingFrom(cls, key, off))

StrictlyAscending(v) == \A i, j \in 1..Len(v) : i < j => v[i] < v[j]

\* the rendering the specification gives: the value of a Parameter, "--" and
\* the name of an Option, "-" and the symbol of a Flag
CanonicalText(a) ==
    CASE a.type = "PARAMETER" -> a.first
      [] a.type = "OPTION" -> <<"-", "-">> \o a.first
      [] a.type = "FLAG" -> <<"-">> \o a.first

----------------------------------------------------------------------------
(* Properties of the query classes, under SpecFacade *)

\* C11: the text operator<< writes for an argument is its value for a
\* Parameter, "--" followed by the name for an Option and "-" followed by the
\* symbol for a Flag, without the captured value.
C11_CanonicalRendering ==
    (call.op = "stream" /\ call.cls = "VariantArgument") => ret = RetText(CanonicalText(_args[call.i]))

\* C13: Params::find with a string key and check_captures = false returns
\* only a position whose argument matches by Parameter value, Option name or
\* (one-character key) Flag symbol, never one whose only match is its
\* captured value.
C13_FindWithoutCaptures ==
    (/\ call.op = "find" /\ call.cls = "Params" /\ call.key.kind = "string"
     /\ ~call.check_captures /\ ret.val # End)
    => MatchesByName(_args[ret.val], call.key.val)

\* C14: find with a char key returns end or a position holding a Flag whose
\* symbol is the key, in Params and in ParamsAPI.
C14_CharKeyFindsOnlyFlags ==
    (call.op = "find" /\ call.key.kind = "char" /\ ret.val # End)
    => IsFlagWithSymbol(_args[ret.val], call.key.val)

\* C14 (amended): Params::find with a char key returns the first position
\* from the offset on holding a Flag whose symbol is the key, or end;
\* ParamsAPI::find with a char key returns the first position from the offset
\* on whose argument of any kind has the one-character string of the key as
\* its name, or end.
C14_CharKeyFind ==
    (call.op = "find" /\ call.key.kind = "char")
    => /\ ret.kind = "pos"
       /\ call.cls = "Params" =>
            /\ ret.val \in call.off..End
            /\ ret.val # End => IsFlagWithSymbol(_args[ret.val], call.key.val)
            /\ \A p \in call.off..(ret.val - 1) :
                  ~IsFlagWithSymbol(_args[p], call.key.val)
       /\ call.cls = "ParamsAPI" =>
            /\ ret.val \in call.off..End
            /\ ret.val # End => _args[ret.val].first = <<call.key.val>>
            /\ \A p \in call.off..(ret.val - 1) :
                  _args[p].first # <<call.key.val>>

\* C14 witness: ParamsAPI::find with a char key has returned the position of
\* a Parameter, and Params::find passes Parameters of that text over
C14_Witness ==
    /\ call.op = "find" /\ call.key.kind = "char" /\ ret.val # End
    /\ \/ call.cls = "ParamsAPI" /\ _args[ret.val].type = "PARAMETER"
       \/ /\ call.cls = "Params" /\ ret.val > call.off
          /\ _args[call.off].first = <<call.key.val>>

\* C15: Params::findAll returns positions in strictly ascending order, as
\* many as there are elements (from the offset on, the whole sequence for the
\* overloads without an offset) that satisfy the predicate find uses for the
\* key.
C15_FindAllAscendingAndComplete ==
    (call.op = "findAll" /\ ret.kind = "vector")
    => /\ StrictlyAscending(ret.val)
       /\ Len(ret.val) = Cardinality(MatchingFrom("Params", call.key, call.off))

\* C15 witness: findAll has returned two or more positions of a sequence that
\* also holds an element the key does not match
C15_Witness ==
    /\ call.op = "findAll" /\ ret.kind = "vector"
    /\ Len(ret.val) >= 2
    /\ Len(ret.val) < Len(_args)

\* the loop of findAll is running
InFindAllLoop == call.op = "findAll" /\ ret = NoRet

\* C16, the state part: while the loop of findAll runs it has made at most
\* length-many iterations, and the cursor is past every hit recorded so far.
C16_Bounded ==
    InFindAllLoop
    => /\ Len(call.vec) <= Len(_args)
       /\ call.it \in call.off..End
       /\ \A k \in 1..Len(call.vec) : call.vec[k] < call.it

\* C16, the step part: every iteration resumes the search strictly past the
\* hit it has just recorded, so the distance to the end strictly decreases.
C16_Progress ==
    (InFindAllLoop /\ call'.op = "findAll" /\ call' # call)
    => /\ call'.it > call.it
       /\ call'.it <= End
       /\ call'.vec = Append(call.vec, call.it)

\* C16: findAll terminates for every key and every finite sequence: each
\* iteration restarts find at an offset strictly greater than the previous
\* hit, so the loop reaches the end after at most length-many iterations.
C16_FindAllTerminates == [](C16_Bounded) /\ [][C16_Progress]_vars

\* C16 witness: the loop has reached the end of the sequence after as many
\* iterations as the sequence is long, two at least
C16_Witness ==
    /\ InFindAllLoop
    /\ call.it = End
    /\ Len(call.vec) = Len(_args)
    /\ Len(_args) >= 2

\* the captured value C17 expects of getv(key, off): that of the first
\* argument from off on (off included) that the class's find matches, none
\* when nothing matches or the match carries no captured value
ExpectedCapture(cls, key, off) ==
    LET pos == FirstMatch(cls, key, off)
    IN  IF pos # End /\ HasCapture(_args[pos])
        THEN RetOpt(<<_args[pos].second[1]>>)
        ELSE RetOpt(<< >>)

\* C17: getv(key, off) returns the captured value of the first argument at a
\* position >= off that find matches for the key, and none, without failing,
\* when nothing matches or the match has no captured value; for string and
\* char keys, in Params and in ParamsAPI.
C17_GetCapturedValue ==
    (call.op = "getv" /\ call.cls \in {"Params", "ParamsAPI"})
    => ret = ExpectedCapture(call.cls, call.key, call.off)

\* C18: VariantArgument::getv() returns the captured string when the
\* argument has one and none, without raising an error, when it has not.
C18_GetvTotal ==
    (call.op = "getv" /\ call.cls = "VariantArgument")
    => ret = (IF HasCapture(_args[call.i])
              THEN RetOpt(<<_args[call.i].second[1]>>)
              ELSE RetOpt(<< >>))

\* the argument has the requested tag and the key's text as its name
TaggedAndNamed(a, T, key) == a.type = T /\ a.first = KeyText(key)

\* find(key) from the start returns a position whose argument has tag T
FirstMatchHasTag(cls, key, T) ==
    /\ FirstMatch(cls, key, 1) # End
    /\ _args[FirstMatch(cls, key, 1)].type = T

\* C19: check_opt / check_flag / check_param return true exactly when
\* find(key) from the sequence start returns a position whose argument has
\* the requested tag, in Params and in ParamsAPI.
C19_CheckKindIsFindThenTag ==
    call.op = "check_kind"
    => ret = RetBool(FirstMatchHasTag(call.cls, call.key, call.T))

\* C19 (amended): Params::check_opt / check_flag / check_param return true
\* exactly when Params::find(key) from the sequence start returns a position
\* whose argument has the requested tag; ParamsAPI::check_opt / check_flag /
\* check_param return true exactly when some argument of the sequence has the
\* requested tag and the key's text as its name, whatever precedes it.
C19_CheckKind ==
    call.op = "check_kind"
    => /\ call.cls = "Params" =>
            ret = RetBool(FirstMatchHasTag("Params", call.key, call.T))
       /\ call.cls = "ParamsAPI" =>
            ret = RetBool(\E p \in 1..Len(_args) :
                              TaggedAndNamed(_args[p], call.T, call.key))

\* C19 witness: ParamsAPI's check of a kind has returned true although the
\* first argument of that name has another tag, and Params's has returned
\* false for such a sequence
C19_Witness ==
    /\ call.op = "check_kind"
    /\ \E p \in 1..Len(_args) : TaggedAndNamed(_args[p], call.T, call.key)
    /\ ~FirstMatchHasTag(call.cls, call.key, call.T)
    /\ call.cls = "ParamsAPI" => ret = RetBool(TRUE)
    /\ call.cls = "Params" => ret = RetBool(FALSE)

----------------------------------------------------------------------------
(* Properties of parsing followed by queries, under SpecPipeline *)

\* the kinds of token the properties speak of
IsBareToken(t) == t # << >> /\ ~IsDelimiter(t[1])
IsTwoPrefixToken(t) == LeadingDelimiters(t) = 2 /\ Len(t) > 2
IsOnePrefixToken(t) == LeadingDelimiters(t) = 1 /\ Len(t) > 1
IsNumberToken(t) == IsOnePrefixToken(t) /\ NumberPattern(Without(t, 1))

\* the variant tags and the names of a classified sequence, in order
TagsAndNames(c) == [k \in 1..Len(c) |-> <<c[k].type, c[k].first>>]

\* C12: for a token list without negative-number tokens and without bundled
\* flag clusters, rendering the classified sequence to its space-joined text,
\* splitting the text on spaces and classifying it again yields the same
\* variant tags and the same names in the same order.
C12_RoundTrip ==
    (/\ call.op = "reparse"
     /\ pc \in {"returned", "thrown"}
     /\ \A i \in 1..Len(call.tokens) :
           /\ ~IsNumberToken(call.tokens[i])
           /\ IsOnePrefixToken(call.tokens[i]) => Len(call.tokens[i]) = 2)
    => /\ pc = "returned"
       /\ TagsAndNames(cont) = TagsAndNames(_args)

\* the call answered true
AnsweredTrue == ret = RetBool(TRUE)

\* C20: after parsing with an empty capture list every input token is found
\* under its own kind: check(t) and check_param(t) for a bare token t,
\* check(n) and check_opt(n) for a two-prefix token "--n", check(c) and
\* check_flag(c) for every character c of a non-numeric one-prefix cluster;
\* in Params and in ParamsAPI, whatever else the list holds.
C20_EveryTokenReachable ==
    (cfg._capture_list = << >> /\ call.op \in {"check", "check_kind"})
    => \A i \in 1..Len(args) :
          LET t == args[i]
              asked(T) == call.op = "check" \/ call.T = T
          IN  /\ (/\ IsBareToken(t) /\ call.key.kind = "string"
                  /\ call.key.val = t /\ asked("PARAMETER"))
                 => AnsweredTrue
              /\ (/\ IsTwoPrefixToken(t) /\ call.key.kind = "string"
                  /\ call.key.val = Without(t, 2) /\ asked("OPTION"))
                 => AnsweredTrue
              /\ (/\ IsOnePrefixToken(t) /\ ~IsNumberToken(t)
                  /\ call.key.kind = "char"
                  /\ \E j \in 2..Len(t) : t[j] = call.key.val
                  /\ asked("FLAG"))
                 => AnsweredTrue

----------------------------------------------------------------------------
(* Further properties of the query classes, under SpecFacade *)

\* the canonical renderings of the arguments joined by single spaces
RECURSIVE JoinCanonical(_)
JoinCanonical(c) ==
    IF c = << >> THEN << >>
    ELSE IF Len(c) = 1 THEN CanonicalText(c[1])
    ELSE CanonicalText(c[1]) \o <<" ">> \o JoinCanonical(Tail(c))

\* C21: the stream rendering of a Params and of a ParamsAPI built from the
\* same sequence are the same text, the arguments' canonical renderings
\* joined by single spaces.
C21_SameRendering ==
    call.op = "compare_output"
    => /\ ret.left = ret.right
       /\ ret.left = JoinCanonical(_args)

\* the tag the specification gives the payload held
TagOfPayload(value) ==
    IF value.index = 1 THEN "PARAMETER"
    ELSE IF value.index = 2 THEN "OPTION"
    ELSE IF value.index = 3 THEN "FLAG"
    ELSE "NULL_TYPE"

\* C22: get<T>() fails with std::bad_variant_access exactly when the
\* argument's tag differs from T and otherwise returns the payload; type()
\* reports the tag of the payload the argument holds.
C22_TypedAccess ==
    /\ call.op = "construct" => type(ret.val) = TagOfPayload(call.value)
    /\ call.op = "get" =>
          /\ type(call.arg) = TagOfPayload(call.value)
          /\ (ret = Throws("bad_variant_access")) <=> (type(call.arg) # call.T)
          /\ type(call.arg) = call.T =>
                ret = [kind |-> "payload", first |-> call.value.first,
                       second |-> call.value.second]

\* C22 witness: get<T>() has failed on an argument of another tag that holds
\* a payload
C22_Witness ==
    /\ call.op = "get"
    /\ ret.kind = "throw"
    /\ call.value.index # 0

\* the two arguments have the same tag and the same payload
SameTagAndPayload(a, b) == a = b

\* C27: a != b is true exactly when a == b is false, and a == b holds
\* exactly when a and b have the same tag and the same payload.
C27_EqualityAndInequality ==
    call.op = "compare"
    => LET a == _args[call.i]
           b == _args[call.j]
       IN  /\ call.opr = "==" => ret = RetBool(SameTagAndPayload(a, b))
           /\ call.opr = "!=" => ret = RetBool(~SameTagAndPayload(a, b))

\* C28: check, check_opt, check_flag and check_param return the same boolean
\* on a Params and on a ParamsAPI built from the same sequence, for every
\* key.
C28_PresenceQueriesAgree ==
    call.op = "compare_check" => ret.left = ret.right

\* the argument is an Option or a Flag whose captured value is the text
MatchesByCapture(a, text) == HasCapture(a) /\ a.second = <<text>>

\* find(arg, check_captures) from the start returns a position: some
\* argument matches as find matches without captures or, when captures are
\* asked for, by its captured value
FoundWith(key, check_captures) ==
    \E p \in 1..Len(_args) :
       \/ ParamsFindMatches(_args[p], key)
       \/ check_captures /\ MatchesByCapture(_args[p], KeyText(key))

\* C29: Params::contains(arg, check_captures) equals
\* find(arg, check_captures) != end for both values of check_captures; with
\* check_captures = true it is true for a string that occurs only as a
\* captured value.
C29_ContainsHonoursCheckCaptures ==
    (call.op = "contains" /\ call.key.kind = "string")
    => ret = RetBool(FoundWith(call.key, call.check_captures))

----------------------------------------------------------------------------
(* Further properties of parsing followed by queries, under SpecPipeline *)

\* a query has been made on the object (one is running or has returned)
QueryMade == call.op \notin {"none", "constructed", "reparse"}

\* C23: every query of the facade leaves the argument sequence unchanged:
\* after any sequence of query calls the stored sequence is element for
\* element the sequence the classifier produced.
C23_QueriesLeaveSequence ==
    (call.op \notin {"none", "reparse"})
    => /\ Len(_args) = Len(cont)
       /\ \A k \in 1..Len(cont) : _args[k] = cont[k]

\* C23 witness: a query has returned on a sequence of two arguments or more
C23_Witness ==
    /\ QueryMade
    /\ ret # NoRet
    /\ Len(cont) >= 2

----------------------------------------------------------------------------
(* Properties of repeated finds, under SpecFind *)

\* the argument matches the key as the class's find matches it, captured
\* values included when Params::find is asked to check them
MatchesKey(a, cls, key, check_captures) ==
    \/ FindMatches(cls, a, key)
    \/ cls = "Params" /\ check_captures /\ MatchesByCapture(a, KeyText(key))

\* pos is the smallest position >= off whose argument matches, end if none
SmallestMatchFrom(pos, off, cls, key, check_captures) ==
    /\ pos \in off..End
    /\ pos # End => MatchesKey(_args[pos], cls, key, check_captures)
    /\ \A p \in off..(pos - 1) : ~MatchesKey(_args[p], cls, key, check_captures)

\* C25: find is monotone in its offset: for offsets a <= b, find(key, a) <=
\* find(key, b) with end the largest position, and find(key, a) is the
\* smallest position >= a whose argument matches the key.
C25_FindMonotone ==
    (call.op \in {"find", "find_again"})
    => /\ SmallestMatchFrom(ret.val, call.off, call.cls, call.key,
                            call.check_captures)
       /\ call.op = "find_again" =>
             /\ call.prev.off <= call.off
             /\ call.prev.pos <= ret.val

\* C25 witness: two finds of one key from offsets a < b have returned two
\* different positions of the sequence
C25_Witness ==
    /\ call.op = "find_again"
    /\ call.prev.off < call.off
    /\ call.prev.pos < ret.val
    /\ ret.val # End

----------------------------------------------------------------------------
(* Properties of ParserConfig, under SpecConfig *)

\* C24: countPrefix returns the number of leading delimiter characters of
\* the token, capped at 2; it is 0 whenever the first character is not a
\* delimiter, however many delimiters occur later.
C24_CountsLeadingDelimiters ==
    call.op = "countPrefix" => ret.val = LeadingDelimiters(call.str)

\* the text is one of the capture list's entries
Listed(text) == InCaptureList(text)

\* the number of delimiter characters among the first two of the text, which
\* is what allowCapture takes for the length of the prefix
DelimitersInFirstTwo(t) ==
    (IF Len(t) >= 1 /\ IsDelimiter(t[1]) THEN 1 ELSE 0)
    + (IF Len(t) >= 2 /\ IsDelimiter(t[2]) THEN 1 ELSE 0)

\* C26: allowCapture strips the counted prefix from its input and tests
\* membership in the capture list, and is false whenever the input or the
\* list is empty; so a token "--name" is eligible exactly when "name" is
\* listed, and a flag character exactly when its one-character string, the
\* prefix stripped, is listed.
C26_AllowCapture ==
    call.op = "allowCapture"
    => LET t == call.str
       IN  /\ ret.kind = "bool"
           /\ (t = << >> \/ cfg._capture_list = << >>) => ~ret.val
           /\ (t # << >> /\ cfg._capture_list # << >>) =>
                 (ret.val <=> Listed(Without(t, DelimitersInFirstTwo(t))))
           /\ (IsTwoPrefixToken(t) /\ cfg._capture_list # << >>) =>
                 (ret.val <=> Listed(Without(t, 2)))
           /\ (Len(t) = 1 /\ ~IsDelimiter(t[1])) => (ret.val <=> Listed(t))

\* C26 witness: a two-prefix token whose name is listed has been found
\* eligible
C26_Witness ==
    /\ call.op = "allowCapture"
    /\ IsTwoPrefixToken(call.str)
    /\ Listed(Without(call.str, 2))
    /\ ret = RetBool(TRUE)

----------------------------------------------------------------------------
(* Termination of parseArgs, under SpecTerminates *)

\* the elements the step appends for which a following token was captured
CapturesOfStep == { k \in (Len(prov) + 1)..Len(prov') : prov'[k].cap # 0 }

\* the tokens for which an iteration of the loop has produced elements
Iterations == { prov[k].tok : k \in 1..Len(prov) }

\* an iteration of the loop: the cursor moves on by one and by one more for
\* every capture, and every capture takes a token that exists after the cursor
C30_Iteration ==
    (pc = "loop" /\ it <= Len(args))
    => /\ \A k \in CapturesOfStep : prov'[k].cap \in (it + 1)..Len(args)
       /\ pc' = "loop" => /\ it' = it + 1 + Cardinality(CapturesOfStep)
                          /\ it' > it
       /\ pc' = "thrown" => it' = it + Cardinality(CapturesOfStep)

\* C30: parseArgs terminates: every iteration and every capture moves the
\* cursor strictly forward, a capture is made only when a following token
\* exists, the cursor never passes the position after the last token, there
\* are at most as many iterations as tokens, and the loop is left.
C30_ParseArgsTerminates ==
    /\ [][C30_Iteration]_vars
    /\ [](it \in 1..(Len(args) + 1))
    /\ [](Cardinality(Iterations) <= Len(args))
    /\ <>(pc # "loop")

\* C30 witness: the loop has returned after the last token was taken as a
\* captured value
C30_Witness ==
    /\ pc = "returned"
    /\ Len(args) >= 2
    /\ \E k \in 1..Len(prov) : prov[k].cap = Len(args)

====
